---- MODULE Spec2Model ----
(***************************************************************************)
(* Model of the ticket ledger of final.py: TicketTransaction, Block,       *)
(* TicketBlockchain (chain, pending pool, ticket registry, mining with     *)
(* proof of work).                                                         *)
(*                                                                         *)
(* Python lists are objects that may be shared, so the model keeps a heap  *)
(* of lists: a block's `transactions` field and `pending_transactions`     *)
(* are references (indices) into `heap`.                                   *)
(*                                                                         *)
(* Spec runs the handlers one whole call at a time. SpecConc runs two      *)
(* request threads of the Flask server through the handlers line by line.  *)
(* `last` (the latest call and its result) and `trace` (the calls that     *)
(* changed the ledger, in order) are history variables.                    *)
(***************************************************************************)
EXTENDS Integers, Sequences, FiniteSets, TLC

\* ---------------------------------------------------------------- bounds
MaxTickets == 2      \* ticket ids uuid4 can hand out
MaxPending == 2      \* records the pending pool may hold
MaxChain   == 4      \* blocks in the chain, genesis included
MaxRecords == 3      \* records accepted over a run
MaxTime    == 1      \* readings of time.time() are 0..MaxTime
HashLen    == 4      \* hex characters of a digest
MaxThreads == 2      \* request threads running handlers at the same time
MaxLater == 2        \* ledger-changing calls after the threads' calls

\* ------------------------------------------------------------- constants
difficulty == 2

TicketIds == 1..MaxTickets
Owners    == {"Alice", "Bob"}
Events    == {"Concert", "Rock Concert"}

Threads   == 1..MaxThreads

VARIABLES chain, heap, pending_transactions, tickets, clock, last, trace,
          threads

vars == <<chain, heap, pending_transactions, tickets, clock, last, trace,
          threads>>

\* ---------------------------------------------------- serialisation, hash
\* json.dumps of a string / None: a number standing for its characters.
JsonStr(s) ==
    CASE s = "None"         -> 0
      [] s = "Alice"        -> 1
      [] s = "Bob"          -> 2
      [] s = "Concert"      -> 3
      [] s = "Rock Concert" -> 4
      [] s = "issue"        -> 5
      [] s = "transfer"     -> 6
      [] s = "redeem"       -> 7

\* TicketTransaction(tx_type, ticket_id, owner, event, new_owner), stamped
\* with the current time.
TicketTransaction(tx_type, ticket_id, owner, event, new_owner, now) ==
    [tx_type |-> tx_type, ticket_id |-> ticket_id, owner |-> owner,
     event |-> event, new_owner |-> new_owner, timestamp |-> now]

\* to_dict, dumped with sort_keys=True: the fields in key order.
to_dict(tx) ==
    <<JsonStr(tx.event), JsonStr(tx.new_owner), JsonStr(tx.owner),
      tx.ticket_id, tx.timestamp, JsonStr(tx.tx_type)>>

RECURSIVE DumpTxs(_)
DumpTxs(txs) ==
    IF txs = <<>> THEN <<>>
    ELSE <<15>> \o to_dict(Head(txs)) \o DumpTxs(Tail(txs))

\* Block(index, transactions, previous_hash, nonce=0): no hash attribute yet.
Block(index, transactions, previous_hash, now) ==
    [index |-> index, transactions |-> transactions, timestamp |-> now,
     previous_hash |-> previous_hash, nonce |-> 0]

\* The block string json.dumps(..., sort_keys=True) builds: index, nonce,
\* previous_hash, timestamp, transactions. `txs` is the content of the list
\* the block refers to.
block_string(b, txs) ==
    <<b.index, b.nonce>> \o <<Len(b.previous_hash)>> \o b.previous_hash
        \o <<b.timestamp>> \o <<Len(txs)>> \o DumpTxs(txs)

\* A digest of HashLen hex characters standing for sha256. The bytes are
\* folded into a state of HashLen + 3 bits; character i of the digest is
\* the 4-bit window of the state that starts at bit i - 1, so that a
\* nonce search for `difficulty` leading zeros stays short.
HashBits == 2 ^ (HashLen + 3)

\* The fold over s[i..Len(s)], from state h.
RECURSIVE Fold(_, _, _)
Fold(s, i, h) ==
    IF i > Len(s) THEN h
    ELSE Fold(s, i + 1, (h * 33 + s[i] + 1) % HashBits)

hexdigest(s) ==
    LET h == Fold(s, 1, 5381 % HashBits)
    IN  [i \in 1..HashLen |-> (h \div (2 ^ (i - 1))) % 16]

\* Block.compute_hash, reading the transaction list through the heap.
compute_hash(b, hp) == hexdigest(block_string(b, hp[b.transactions]))

startswith(s, prefix) ==
    /\ Len(s) >= Len(prefix)
    /\ SubSeq(s, 1, Len(prefix)) = prefix

Zeros(n) == [i \in 1..n |-> 0]

\* Mutant of pow_loop: the loop tests one zero too few.
RECURSIVE pow_loop_short(_, _, _)
pow_loop_short(b, nonce, hp) ==
    IF startswith(compute_hash([b EXCEPT !.nonce = nonce], hp),
                  Zeros(difficulty - 1))
    THEN nonce
    ELSE pow_loop_short(b, nonce + 1, hp)

\* The while loop of proof_of_work, entered with block.nonce = nonce: the
\* nonce the loop exits with.
RECURSIVE pow_loop(_, _, _)
pow_loop(b, nonce, hp) ==
    IF startswith(compute_hash([b EXCEPT !.nonce = nonce], hp),
                  Zeros(difficulty))
    THEN nonce
    ELSE pow_loop(b, nonce + 1, hp)

\* Mutant of proof_of_work: the search starts at nonce 1.
proof_of_work_from_one(b, hp) ==
    LET found == [b EXCEPT !.nonce = pow_loop(b, 1, hp)]
    IN  [block |-> found, computed_hash |-> compute_hash(found, hp)]

\* proof_of_work(block): the block as the search leaves it, and the hash
\* returned.
proof_of_work(b, hp) ==
    LET found == [b EXCEPT !.nonce = pow_loop(b, 0, hp)]
    IN  [block |-> found, computed_hash |-> compute_hash(found, hp)]

\* Assigning block.hash.
SetHash(b, h) ==
    [index |-> b.index, transactions |-> b.transactions,
     timestamp |-> b.timestamp, previous_hash |-> b.previous_hash,
     nonce |-> b.nonce, hash |-> h]

\* ------------------------------------------------------------ operations
\* Mutant of add_transaction: the list is overwritten with the one record.
add_transaction_replace(hp, ref, tx) == [hp EXCEPT ![ref] = <<tx>>]

\* Mutant of add_transaction: the record is appended twice.
add_transaction_twice(hp, ref, tx) ==
    [hp EXCEPT ![ref] = Append(Append(@, tx), tx)]

\* add_transaction: append to the list pending_transactions refers to.
add_transaction(hp, ref, tx) == [hp EXCEPT ![ref] = Append(@, tx)]

\* create_genesis_block: Block(0, [], "0") with its hash, on a fresh list.
create_genesis_block(ref, now) ==
    LET g == Block(0, ref, <<0>>, now)
    IN  SetHash(g, hexdigest(block_string(g, <<>>)))

Ret(tag, val) == [tag |-> tag, val |-> val]
Call(op, ret) == [op |-> op, ret |-> ret]

\* A request thread that is in no handler.
Idle == [pc |-> "idle"]

\* TicketBlockchain(): heap[1] is the genesis block's list, heap[2] the
\* pending pool.
Init ==
    /\ clock = 0
    /\ heap = << <<>>, <<>> >>
    /\ chain = << create_genesis_block(1, 0) >>
    /\ pending_transactions = 2
    /\ tickets = [id \in {} |-> 0]
    /\ last = Call("init", Ret("none", 0))
    /\ trace = <<>>
    /\ threads = [t \in Threads |-> Idle]

\* time.time() moves on between calls.
Tick ==
    /\ clock < MaxTime
    /\ clock' = clock + 1
    /\ UNCHANGED <<chain, heap, pending_transactions, tickets, last, trace,
                   threads>>

\* Mutant of uuid4: ids can repeat.
uuid4_repeating == TicketIds

\* uuid4(): an id never handed out before.
uuid4 == TicketIds \ DOMAIN tickets

RECURSIVE Records(_)
Records(hp) ==
    IF hp = <<>> THEN 0 ELSE Len(Head(hp)) + Records(Tail(hp))

\* The bounds on the records a run accepts.
PoolFull ==
    \/ Len(heap[pending_transactions]) >= MaxPending
    \/ Records(heap) >= MaxRecords

\* Mutant of SetItem: the registry is rebuilt with the one entry.
SetItem_only(tk, ticket_id, entry) == [id \in {ticket_id} |-> entry]

\* The registry after tickets[ticket_id] = entry.
SetItem(tk, ticket_id, entry) ==
    [id \in DOMAIN tk \cup {ticket_id} |->
        IF id = ticket_id THEN entry ELSE tk[id]]

issue_ticket(owner, event) ==
    /\ ~PoolFull
    /\ \E ticket_id \in uuid4 :
        LET tx == TicketTransaction("issue", ticket_id, owner, event,
                                    "None", clock)
        IN  /\ heap' = add_transaction(heap, pending_transactions, tx)
            /\ tickets' = SetItem(tickets, ticket_id,
                    [owner |-> owner, status |-> "valid", event |-> event])
            /\ last' = Call("issue_ticket", Ret("id", ticket_id))
            /\ trace' = Append(trace, <<"issue_ticket", owner, event,
                                        ticket_id>>)
    /\ UNCHANGED <<chain, pending_transactions, clock, threads>>

\* Mutant of Rejected: the status is not looked at.
Rejected_missing_only(tk, ticket_id) == ticket_id \notin DOMAIN tk

\* The test `not ticket or ticket["status"] != "valid"`.
Rejected(tk, ticket_id) ==
    \/ ticket_id \notin DOMAIN tk
    \/ tk[ticket_id].status # "valid"

\* Mutant of transfer_record: the record is built after the owner changed.
transfer_record_late(tk, ticket_id, new_owner, now) ==
    TicketTransaction("transfer", ticket_id, new_owner, "None", new_owner, now)

\* The record transfer_ticket builds, from the entry as it is before the
\* owner is replaced.
transfer_record(tk, ticket_id, new_owner, now) ==
    TicketTransaction("transfer", ticket_id, tk[ticket_id].owner, "None",
                      new_owner, now)

transfer_ticket(ticket_id, new_owner) ==
    IF Rejected(tickets, ticket_id)
    THEN /\ last' = Call("transfer_ticket", Ret("bool", FALSE))
         /\ UNCHANGED <<chain, heap, pending_transactions, tickets, clock,
                        trace, threads>>
    ELSE /\ ~PoolFull
         /\ LET tx == transfer_record(tickets, ticket_id, new_owner, clock)
            IN  heap' = add_transaction(heap, pending_transactions, tx)
         /\ tickets' = [tickets EXCEPT ![ticket_id].owner = new_owner]
         /\ last' = Call("transfer_ticket", Ret("bool", TRUE))
         /\ trace' = Append(trace, <<"transfer_ticket", ticket_id, new_owner>>)
         /\ UNCHANGED <<chain, pending_transactions, clock, threads>>

redeem_ticket(ticket_id) ==
    IF Rejected(tickets, ticket_id)
    THEN /\ last' = Call("redeem_ticket", Ret("bool", FALSE))
         /\ UNCHANGED <<chain, heap, pending_transactions, tickets, clock,
                        trace, threads>>
    ELSE /\ ~PoolFull
         /\ LET tx == TicketTransaction("redeem", ticket_id,
                         tickets[ticket_id].owner, "None", "None", clock)
            IN  heap' = add_transaction(heap, pending_transactions, tx)
         /\ tickets' = [tickets EXCEPT ![ticket_id].status = "redeemed"]
         /\ last' = Call("redeem_ticket", Ret("bool", TRUE))
         /\ trace' = Append(trace, <<"redeem_ticket", ticket_id>>)
         /\ UNCHANGED <<chain, pending_transactions, clock, threads>>

\* Mutant of verify_result: a ticket that is not valid counts as missing.
verify_result_valid_only(tk, ticket_id) ==
    IF ticket_id \notin DOMAIN tk \/ tk[ticket_id].status # "valid"
    THEN Ret("none", 0)
    ELSE Ret("ticket", tk[ticket_id])

\* verify_ticket's result: the registry entry, or None.
verify_result(tk, ticket_id) ==
    IF ticket_id \notin DOMAIN tk THEN Ret("none", 0)
    ELSE Ret("ticket", tk[ticket_id])

verify_ticket(ticket_id) ==
    /\ last' = Call("verify_ticket", verify_result(tickets, ticket_id))
    /\ UNCHANGED <<chain, heap, pending_transactions, tickets, clock, trace,
                   threads>>

\* Mutant of mined_block: the hash is taken before the nonce search.
mined_block_early_hash(ch, hp, ref, now) ==
    LET new_block == Block(Len(ch), ref, compute_hash(ch[Len(ch)], hp), now)
        pow == proof_of_work(new_block, hp)
    IN  SetHash(pow.block, compute_hash(new_block, hp))

\* Mutant of mined_block: the index is one too high.
mined_block_index(ch, hp, ref, now) ==
    LET new_block == Block(Len(ch) + 1, ref, compute_hash(ch[Len(ch)], hp),
                           now)
        pow == proof_of_work(new_block, hp)
    IN  SetHash(pow.block, pow.computed_hash)

\* The block mine() builds and appends: Block(len(chain), pending,
\* chain[-1].compute_hash()), searched by proof_of_work, with its hash.
mined_block(ch, hp, ref, now) ==
    LET new_block == Block(Len(ch), ref, compute_hash(ch[Len(ch)], hp), now)
        pow == proof_of_work(new_block, hp)
    IN  SetHash(pow.block, pow.computed_hash)

\* Mutant of reset_pending: the list is emptied in place (list.clear()).
reset_pending_clear(hp, ref) == [heap |-> [hp EXCEPT ![ref] = <<>>], ref |-> ref]

\* Mutant of reset_pending: the pool keeps referring to the mined list.
reset_pending_kept(hp, ref) == [heap |-> hp, ref |-> ref]

\* Mutant of nothing_to_mine: the test is inverted.
nothing_to_mine_inverted(hp, ref) == hp[ref] # <<>>

\* `not self.pending_transactions`.
nothing_to_mine(hp, ref) == hp[ref] = <<>>

\* `self.pending_transactions = []`: the pool becomes a new, empty list.
reset_pending(hp, ref) == [heap |-> Append(hp, <<>>), ref |-> Len(hp) + 1]

mine ==
    IF nothing_to_mine(heap, pending_transactions)
    THEN /\ last' = Call("mine", Ret("bool", FALSE))
         /\ UNCHANGED <<chain, heap, pending_transactions, tickets, clock,
                        trace, threads>>
    ELSE /\ Len(chain) < MaxChain
         /\ LET new_block == mined_block(chain, heap, pending_transactions,
                                         clock)
                fresh == reset_pending(heap, pending_transactions)
            IN  /\ chain' = Append(chain, new_block)
                /\ heap' = fresh.heap
                /\ pending_transactions' = fresh.ref
                /\ last' = Call("mine", Ret("block", new_block))
         /\ trace' = Append(trace, <<"mine">>)
         /\ UNCHANGED <<tickets, clock, threads>>

Next ==
    \/ \E owner \in Owners, event \in Events : issue_ticket(owner, event)
    \/ \E ticket_id \in TicketIds, new_owner \in Owners :
            transfer_ticket(ticket_id, new_owner)
    \/ \E ticket_id \in TicketIds : redeem_ticket(ticket_id)
    \/ \E ticket_id \in TicketIds : verify_ticket(ticket_id)
    \/ mine
    \/ Tick

Spec == Init /\ [][Next]_vars

\* ------------------------------------------------- concurrent requests
\* The Flask server hands each request to a thread, and the route handlers
\* call the methods of the one global `blockchain` with no lock. A thread
\* can be preempted between any two lines, so a handler is a sequence of
\* steps; each step below is a group of lines with one access to the
\* shared ledger. A thread serves one request.

\* The thread's record once its call has returned.
Done(op, ticket_id, ret) ==
    [pc |-> "done", op |-> op, ticket_id |-> ticket_id, ret |-> ret]

AllDone  == \A t \in Threads : threads[t].pc = "done"
AllQuiet == \A t \in Threads : threads[t].pc \in {"idle", "done"}

\* Ids that a thread drew from uuid4 and has not stored in the registry yet.
DrawnIds ==
    {threads[t].ticket_id : t \in {u \in Threads : threads[u].pc = "issue_set"}}

\* issue_ticket, lines 82-84: draw the id, build the record, append it.
t_issue_add(t, owner, event) ==
    /\ threads[t].pc = "idle"
    /\ \E ticket_id \in uuid4 \ DrawnIds :
        /\ heap' = add_transaction(heap, pending_transactions,
                TicketTransaction("issue", ticket_id, owner, event, "None",
                                  clock))
        /\ threads' = [threads EXCEPT ![t] =
                [pc |-> "issue_set", op |-> "issue_ticket",
                 ticket_id |-> ticket_id, owner |-> owner, event |-> event]]
    /\ UNCHANGED <<chain, pending_transactions, tickets, clock, last, trace>>

\* issue_ticket, lines 85-86: store the registry entry, return the id.
t_issue_set(t) ==
    /\ threads[t].pc = "issue_set"
    /\ tickets' = SetItem(tickets, threads[t].ticket_id,
            [owner |-> threads[t].owner, status |-> "valid",
             event |-> threads[t].event])
    /\ threads' = [threads EXCEPT ![t] =
            Done("issue_ticket", threads[t].ticket_id,
                 Ret("id", threads[t].ticket_id))]
    /\ UNCHANGED <<chain, heap, pending_transactions, clock, last, trace>>

\* transfer_ticket, lines 89-91: look the ticket up and test it.
t_transfer_check(t, ticket_id, new_owner) ==
    /\ threads[t].pc = "idle"
    /\ threads' = [threads EXCEPT ![t] =
            IF Rejected(tickets, ticket_id)
            THEN Done("transfer_ticket", ticket_id, Ret("bool", FALSE))
            ELSE [pc |-> "transfer_add", op |-> "transfer_ticket",
                  ticket_id |-> ticket_id, new_owner |-> new_owner]]
    /\ UNCHANGED <<chain, heap, pending_transactions, tickets, clock, last,
                   trace>>

\* transfer_ticket, lines 92-93: build the record from the entry's owner as
\* it is now, append it.
t_transfer_add(t) ==
    /\ threads[t].pc = "transfer_add"
    /\ heap' = add_transaction(heap, pending_transactions,
            transfer_record(tickets, threads[t].ticket_id,
                            threads[t].new_owner, clock))
    /\ threads' = [threads EXCEPT ![t].pc = "transfer_set"]
    /\ UNCHANGED <<chain, pending_transactions, tickets, clock, last, trace>>

\* transfer_ticket, lines 94-95: replace the owner, return True.
t_transfer_set(t) ==
    /\ threads[t].pc = "transfer_set"
    /\ tickets' = [tickets EXCEPT
                      ![threads[t].ticket_id].owner = threads[t].new_owner]
    /\ threads' = [threads EXCEPT ![t] =
            Done("transfer_ticket", threads[t].ticket_id, Ret("bool", TRUE))]
    /\ UNCHANGED <<chain, heap, pending_transactions, clock, last, trace>>

\* redeem_ticket, lines 98-100: look the ticket up and test it.
t_redeem_check(t, ticket_id) ==
    /\ threads[t].pc = "idle"
    /\ threads' = [threads EXCEPT ![t] =
            IF Rejected(tickets, ticket_id)
            THEN Done("redeem_ticket", ticket_id, Ret("bool", FALSE))
            ELSE [pc |-> "redeem_add", op |-> "redeem_ticket",
                  ticket_id |-> ticket_id]]
    /\ UNCHANGED <<chain, heap, pending_transactions, tickets, clock, last,
                   trace>>

\* redeem_ticket, lines 101-102: build the record, append it.
t_redeem_add(t) ==
    /\ threads[t].pc = "redeem_add"
    /\ heap' = add_transaction(heap, pending_transactions,
            TicketTransaction("redeem", threads[t].ticket_id,
                tickets[threads[t].ticket_id].owner, "None", "None", clock))
    /\ threads' = [threads EXCEPT ![t].pc = "redeem_set"]
    /\ UNCHANGED <<chain, pending_transactions, tickets, clock, last, trace>>

\* redeem_ticket, lines 103-104: set the status, return True.
t_redeem_set(t) ==
    /\ threads[t].pc = "redeem_set"
    /\ tickets' = [tickets EXCEPT
                      ![threads[t].ticket_id].status = "redeemed"]
    /\ threads' = [threads EXCEPT ![t] =
            Done("redeem_ticket", threads[t].ticket_id, Ret("bool", TRUE))]
    /\ UNCHANGED <<chain, heap, pending_transactions, clock, last, trace>>

\* mine, lines 65-66: return False on an empty pool.
t_mine_check(t) ==
    /\ threads[t].pc = "idle"
    /\ threads' = [threads EXCEPT ![t] =
            IF nothing_to_mine(heap, pending_transactions)
            THEN Done("mine", 0, Ret("bool", FALSE))
            ELSE [pc |-> "mine_new", op |-> "mine"]]
    /\ UNCHANGED <<chain, heap, pending_transactions, tickets, clock, last,
                   trace>>

\* mine, line 67: new_block refers to the pool's list itself.
t_mine_new(t) ==
    /\ threads[t].pc = "mine_new"
    /\ threads' = [threads EXCEPT ![t] =
            [pc |-> "pow_start", op |-> "mine",
             new_block |-> Block(Len(chain), pending_transactions,
                                 compute_hash(chain[Len(chain)], heap),
                                 clock)]]
    /\ UNCHANGED <<chain, heap, pending_transactions, tickets, clock, last,
                   trace>>

\* proof_of_work, lines 74-75: nonce 0 and the first hash, of the list as
\* it is now.
t_pow_start(t) ==
    /\ threads[t].pc = "pow_start"
    /\ LET b == [threads[t].new_block EXCEPT !.nonce = 0]
       IN  threads' = [threads EXCEPT ![t] =
                [pc |-> "pow_loop", op |-> "mine", new_block |-> b,
                 computed_hash |-> compute_hash(b, heap)]]
    /\ UNCHANGED <<chain, heap, pending_transactions, tickets, clock, last,
                   trace>>

\* proof_of_work, lines 76-79: one turn of the loop, or its exit.
t_pow_loop(t) ==
    /\ threads[t].pc = "pow_loop"
    /\ IF startswith(threads[t].computed_hash, Zeros(difficulty))
       THEN threads' = [threads EXCEPT ![t].pc = "mine_append"]
       ELSE LET b == [threads[t].new_block EXCEPT !.nonce = @ + 1]
            IN  threads' = [threads EXCEPT ![t] =
                    [pc |-> "pow_loop", op |-> "mine", new_block |-> b,
                     computed_hash |-> compute_hash(b, heap)]]
    /\ UNCHANGED <<chain, heap, pending_transactions, tickets, clock, last,
                   trace>>

\* mine, lines 68-69: assign the hash returned, append the block.
t_mine_append(t) ==
    /\ threads[t].pc = "mine_append"
    /\ chain' = Append(chain, SetHash(threads[t].new_block,
                                      threads[t].computed_hash))
    /\ threads' = [threads EXCEPT ![t].pc = "mine_reset"]
    /\ UNCHANGED <<heap, pending_transactions, tickets, clock, last, trace>>

\* mine, lines 70-71: the pool becomes a new list, the block is returned.
t_mine_reset(t) ==
    /\ threads[t].pc = "mine_reset"
    /\ LET fresh == reset_pending(heap, pending_transactions)
       IN  /\ heap' = fresh.heap
           /\ pending_transactions' = fresh.ref
    /\ threads' = [threads EXCEPT ![t] =
            Done("mine", 0,
                 Ret("block", SetHash(threads[t].new_block,
                                      threads[t].computed_hash)))]
    /\ UNCHANGED <<chain, tickets, clock, last, trace>>

\* The ledger after one issue_ticket call on a new TicketBlockchain: the
\* point at which the two threads take their requests.
InitConc ==
    /\ clock = 0
    /\ chain = << create_genesis_block(1, 0) >>
    /\ pending_transactions = 2
    /\ threads = [t \in Threads |-> Idle]
    /\ \E owner \in Owners, event \in Events, ticket_id \in TicketIds :
        /\ heap = add_transaction(<< <<>>, <<>> >>, 2,
                TicketTransaction("issue", ticket_id, owner, event, "None",
                                  0))
        /\ tickets = SetItem([id \in {} |-> 0], ticket_id,
                [owner |-> owner, status |-> "valid", event |-> event])
        /\ last = Call("issue_ticket", Ret("id", ticket_id))
        /\ trace = << <<"issue_ticket", owner, event, ticket_id>> >>

\* Once both calls have returned, further calls arrive one at a time and
\* run whole; MaxLater bounds how many of them change the ledger.
Later ==
    /\ AllDone
    /\ Len(trace) <= MaxLater
    /\ \/ \E owner \in Owners, event \in Events : issue_ticket(owner, event)
       \/ \E ticket_id \in TicketIds, new_owner \in Owners :
               transfer_ticket(ticket_id, new_owner)
       \/ \E ticket_id \in TicketIds : redeem_ticket(ticket_id)
       \/ mine

NextConc ==
    \/ \E t \in Threads, owner \in Owners, event \in Events :
            t_issue_add(t, owner, event)
    \/ \E t \in Threads : t_issue_set(t)
    \/ \E t \in Threads, ticket_id \in TicketIds, new_owner \in Owners :
            t_transfer_check(t, ticket_id, new_owner)
    \/ \E t \in Threads : t_transfer_add(t)
    \/ \E t \in Threads : t_transfer_set(t)
    \/ \E t \in Threads, ticket_id \in TicketIds : t_redeem_check(t, ticket_id)
    \/ \E t \in Threads : t_redeem_add(t)
    \/ \E t \in Threads : t_redeem_set(t)
    \/ \E t \in Threads : t_mine_check(t)
    \/ \E t \in Threads : t_mine_new(t)
    \/ \E t \in Threads : t_pow_start(t)
    \/ \E t \in Threads : t_pow_loop(t)
    \/ \E t \in Threads : t_mine_append(t)
    \/ \E t \in Threads : t_mine_reset(t)
    \/ Later

SpecConc == InitConc /\ [][NextConc]_vars

\* ------------------------------------------------------------ properties
\* The records of the mined blocks, in block order then in-block order.
RECURSIVE ChainRecords(_, _)
ChainRecords(ch, hp) ==
    IF ch = <<>> THEN <<>>
    ELSE hp[Head(ch).transactions] \o ChainRecords(Tail(ch), hp)

\* The records of the mined blocks followed by the pending pool.
AllRecords == ChainRecords(chain, heap) \o heap[pending_transactions]

Pending == heap[pending_transactions]

False == Ret("bool", FALSE)
True  == Ret("bool", TRUE)

\* C1: every block's stored hash is the hash of its content, and every
\* non-genesis block's previous_hash is the hash of the block before it.
C1_HashesAndLinks ==
    \A i \in 1..Len(chain) :
        /\ compute_hash(chain[i], heap) = chain[i].hash
        /\ i > 1 => chain[i].previous_hash
                        = compute_hash(chain[chain[i].index], heap)

\* Two mined blocks, the second linked to a block found by a nonce search.
C1_Witness == Len(chain) >= 3 /\ chain[2].nonce > 0

\* C2: a ticket in the registry stays in it, and a redeemed ticket stays
\* redeemed, over every step.
C2_StatusOnlyForward ==
    [][\A id \in DOMAIN tickets :
          /\ id \in DOMAIN tickets'
          /\ tickets'[id].status \in {"valid", "redeemed"}
          /\ tickets[id].status = "redeemed"
                => tickets'[id].status = "redeemed"]_vars

\* A ticket is redeemed and a further ticket was issued after that.
C2_Witness ==
    /\ last.op = "issue_ticket"
    /\ \E id \in DOMAIN tickets : tickets[id].status = "redeemed"

\* C3: transfer_ticket and redeem_ticket on an id that is absent or not
\* valid return False and change neither registry, pool nor chain.
C3_RejectedIsNoOp ==
    [][\A id \in TicketIds :
          (\/ id \notin DOMAIN tickets
           \/ tickets[id].status # "valid")
          => /\ \A o \in Owners :
                  (last'.op = "transfer_ticket" /\ transfer_ticket(id, o))
                    => /\ last'.ret = False
                       /\ UNCHANGED <<tickets, heap, pending_transactions,
                                      chain>>
             /\ (last'.op = "redeem_ticket" /\ redeem_ticket(id))
                    => /\ last'.ret = False
                       /\ UNCHANGED <<tickets, heap, pending_transactions,
                                      chain>>]_vars

\* A transfer was refused while the registry holds no ticket at all.
C3_Witness ==
    /\ last = Call("transfer_ticket", False)
    /\ DOMAIN tickets = {}

\* C4: mined blocks and pending pool together hold at most one redeem
\* record per ticket id.
C4_AtMostOneRedeem ==
    \A id \in TicketIds :
        Cardinality({i \in 1..Len(AllRecords) :
                        /\ AllRecords[i].tx_type = "redeem"
                        /\ AllRecords[i].ticket_id = id}) <= 1

\* Every id is in the registry and a redeem was refused: the ticket it
\* named was redeemed before.
C4_Witness ==
    /\ last = Call("redeem_ticket", False)
    /\ DOMAIN tickets = TicketIds
    /\ \E i \in 1..Len(AllRecords) : AllRecords[i].tx_type = "redeem"

\* C5: mine() on a non-empty pool appends one block holding the pool's
\* records in order, returns it, empties the pool and changes neither the
\* earlier blocks nor the registry.
C5_MineAppendsPool ==
    [][(last'.op = "mine" /\ Pending # <<>> /\ mine)
          => /\ Len(chain') = Len(chain) + 1
             /\ heap'[pending_transactions'] = <<>>
             /\ last'.ret = Ret("block", chain'[Len(chain')])
             /\ heap'[chain'[Len(chain')].transactions] = Pending
             /\ \A i \in 1..Len(chain) :
                    /\ chain'[i] = chain[i]
                    /\ heap'[chain'[i].transactions]
                          = heap[chain[i].transactions]
             /\ tickets' = tickets]_vars

\* mine() returned a block that holds two records.
C5_Witness ==
    /\ last.op = "mine"
    /\ last.ret.tag = "block"
    /\ Len(heap[last.ret.val.transactions]) = 2

\* C6: mine() on an empty pool returns False and changes neither chain,
\* pool nor registry.
C6_EmptyMineIsNoOp ==
    [][(last'.op = "mine" /\ Pending = <<>> /\ mine)
          => /\ last'.ret = False
             /\ UNCHANGED <<chain, heap, pending_transactions, tickets>>]_vars

\* mine() reported nothing to mine, on a chain that has a mined block.
C6_Witness == last = Call("mine", False) /\ Len(chain) >= 2

\* C7: the hash of every non-genesis block starts with `difficulty` zeros.
C7_MinedHashMeetsDifficulty ==
    \A i \in 2..Len(chain) :
        startswith(compute_hash(chain[i], heap), Zeros(difficulty))

\* A mined block whose nonce search had to move off nonce 0.
C7_Witness == \E i \in 2..Len(chain) : chain[i].nonce > 0

\* C8: over every step the chain keeps its blocks, field by field, and the
\* transaction lists of those blocks keep their content.
C8_AppendOnly ==
    [][/\ Len(chain') >= Len(chain)
       /\ \A i \in 1..Len(chain) :
            /\ chain'[i] = chain[i]
            /\ heap'[chain'[i].transactions] = heap[chain[i].transactions]
      ]_vars

\* A record was accepted into the pool after a block was mined.
C8_Witness ==
    /\ Len(chain) >= 2
    /\ Pending # <<>>
    /\ last.op \in {"issue_ticket", "transfer_ticket", "redeem_ticket"}

\* C9: issue_ticket returns an id new to the registry, adds the entry
\* {owner, valid, event} for it and nothing else, appends one issue record,
\* and verify_ticket on the id then gives that entry.
C9_IssueCreatesValidTicket ==
    [][\A o \in Owners, e \in Events :
          (last'.op = "issue_ticket" /\ issue_ticket(o, e))
            => /\ last'.ret.tag = "id"
               /\ LET id == last'.ret.val
                      entry == [owner |-> o, status |-> "valid", event |-> e]
                  IN  /\ id \notin DOMAIN tickets
                      /\ DOMAIN tickets' = DOMAIN tickets \cup {id}
                      /\ tickets'[id] = entry
                      /\ \A j \in DOMAIN tickets : tickets'[j] = tickets[j]
                      /\ Len(heap'[pending_transactions']) = Len(Pending) + 1
                      /\ SubSeq(heap'[pending_transactions'], 1, Len(Pending))
                            = Pending
                      /\ LET tx == heap'[pending_transactions'][Len(Pending) + 1]
                         IN  /\ tx.tx_type = "issue"
                             /\ tx.ticket_id = id
                             /\ tx.owner = o
                             /\ tx.event = e
                      /\ verify_result(tickets', id) = Ret("ticket", entry)
                      /\ chain' = chain]_vars

\* A second ticket was issued while the first is in the registry.
C9_Witness ==
    /\ last.op = "issue_ticket"
    /\ Cardinality(DOMAIN tickets) = 2

\* C10: a transfer of a valid ticket returns True, appends one transfer
\* record carrying the owner before the change and the new owner, sets the
\* registry owner and keeps status and event.
C10_TransferRecordsOldOwner ==
    [][\A id \in DOMAIN tickets, o \in Owners :
          (/\ last'.op = "transfer_ticket"
           /\ tickets[id].status = "valid"
           /\ transfer_ticket(id, o))
            => /\ last'.ret = True
               /\ Len(heap'[pending_transactions']) = Len(Pending) + 1
               /\ SubSeq(heap'[pending_transactions'], 1, Len(Pending))
                     = Pending
               /\ LET tx == heap'[pending_transactions'][Len(Pending) + 1]
                  IN  /\ tx.tx_type = "transfer"
                      /\ tx.ticket_id = id
                      /\ tx.owner = tickets[id].owner
                      /\ tx.new_owner = o
               /\ tickets'[id] = [owner |-> o, status |-> "valid",
                                  event |-> tickets[id].event]
               /\ \A j \in DOMAIN tickets \ {id} : tickets'[j] = tickets[j]
               /\ DOMAIN tickets' = DOMAIN tickets]_vars

\* A transfer succeeded and its record names two different owners.
C10_Witness ==
    /\ last = Call("transfer_ticket", True)
    /\ Pending # <<>>
    /\ Pending[Len(Pending)].tx_type = "transfer"
    /\ Pending[Len(Pending)].owner # Pending[Len(Pending)].new_owner

\* The registry after one more record of the history is replayed.
ReplayOne(tk, tx) ==
    IF tx.tx_type = "issue"
    THEN [id \in DOMAIN tk \cup {tx.ticket_id} |->
            IF id = tx.ticket_id
            THEN [owner |-> tx.owner, status |-> "valid", event |-> tx.event]
            ELSE tk[id]]
    ELSE IF tx.ticket_id \notin DOMAIN tk THEN tk
    ELSE IF tx.tx_type = "transfer"
    THEN [tk EXCEPT ![tx.ticket_id].owner = tx.new_owner]
    ELSE [tk EXCEPT ![tx.ticket_id].status = "redeemed"]

\* The registry that replaying txs[1..n] from an empty registry gives.
RECURSIVE Replay(_, _)
Replay(txs, n) ==
    IF n = 0 THEN [id \in {} |-> 0]
    ELSE ReplayOne(Replay(txs, n - 1), txs[n])

\* C11: replaying the records of the mined blocks and then of the pending
\* pool gives exactly the ticket registry.
C11_RegistryIsReplay == Replay(AllRecords, Len(AllRecords)) = tickets

\* A history with a transfer and a redeem, part mined and part pending.
C11_Witness ==
    /\ Len(chain) >= 2
    /\ Pending # <<>>
    /\ \E i \in 1..Len(AllRecords) : AllRecords[i].tx_type = "transfer"
    /\ \E i \in 1..Len(AllRecords) : AllRecords[i].tx_type = "redeem"

\* The calls of the scenario: issue T for Alice / Concert, mine, transfer T
\* to Bob, mine, redeem T, mine.
Scenario(T) ==
    << <<"issue_ticket", "Alice", "Concert", T>>, <<"mine">>,
       <<"transfer_ticket", T, "Bob">>, <<"mine">>,
       <<"redeem_ticket", T>>, <<"mine">> >>

\* C12: after the scenario on a fresh ledger, verify T gives {Bob, redeemed,
\* Concert}, the chain has 4 blocks, the mined ones hold one record each
\* (issue, transfer, redeem), the pool is empty and each mined block meets
\* the difficulty and is linked to the block before it.
C12_ScenarioEndState ==
    \A T \in TicketIds :
        trace = Scenario(T)
          => /\ verify_result(tickets, T)
                  = Ret("ticket", [owner |-> "Bob", status |-> "redeemed",
                                   event |-> "Concert"])
             /\ Len(chain) = 4
             /\ \A i \in 2..4 : Len(heap[chain[i].transactions]) = 1
             /\ heap[chain[2].transactions][1].tx_type = "issue"
             /\ heap[chain[3].transactions][1].tx_type = "transfer"
             /\ heap[chain[4].transactions][1].tx_type = "redeem"
             /\ Pending = <<>>
             /\ \A i \in 2..4 :
                    /\ chain[i].previous_hash
                          = compute_hash(chain[i - 1], heap)
                    /\ startswith(chain[i].hash, Zeros(difficulty))

\* The scenario has run and verify_ticket has returned the ticket.
C12_Witness ==
    /\ \E T \in TicketIds : trace = Scenario(T)
    /\ last.op = "verify_ticket"
    /\ last.ret.tag = "ticket"

\* C13: verify_ticket changes neither registry, pool nor chain, and returns
\* the registry entry of the id, or None when the id is absent.
C13_VerifyReadOnly ==
    [][\A id \in TicketIds :
          (last'.op = "verify_ticket" /\ verify_ticket(id))
            => /\ UNCHANGED <<tickets, heap, pending_transactions, chain>>
               /\ IF id \in DOMAIN tickets
                  THEN /\ last'.ret.tag = "ticket"
                       /\ last'.ret.val = tickets[id]
                  ELSE last'.ret.tag = "none"]_vars

\* verify_ticket returned the entry of a redeemed ticket.
C13_Witness ==
    /\ last.op = "verify_ticket"
    /\ last.ret.tag = "ticket"
    /\ last.ret.val.status = "redeemed"

\* C16: the chain is never empty, block i has index i, block 0 is the
\* genesis block (no records, previous_hash "0"), and every other block
\* holds at least one record.
C16_ChainShape ==
    /\ Len(chain) >= 1
    /\ \A i \in 1..Len(chain) : chain[i].index = i - 1
    /\ heap[chain[1].transactions] = <<>>
    /\ chain[1].previous_hash = <<0>>
    /\ \A i \in 2..Len(chain) : heap[chain[i].transactions] # <<>>

\* Three mined blocks after the genesis block.
C16_Witness == Len(chain) = 4

\* The hash of block b with its nonce set to n meets the difficulty.
MeetsAt(b, n) ==
    startswith(compute_hash([b EXCEPT !.nonce = n], heap), Zeros(difficulty))

\* C17: proof_of_work, on the block mine() builds from a non-empty pool,
\* ends with the least nonce >= 0 whose hash meets the difficulty, returns
\* the hash at that nonce and changes no other field; the block mined last
\* carries such a least nonce.
C17_ProofOfWorkLeastNonce ==
    /\ Pending # <<>> =>
         \A b \in {Block(Len(chain), pending_transactions,
                          compute_hash(chain[Len(chain)], heap), clock)} :
           \A r \in {proof_of_work(b, heap)} :
             /\ r.block.nonce >= 0
             /\ r.block = [b EXCEPT !.nonce = r.block.nonce]
             /\ MeetsAt(b, r.block.nonce)
             /\ \A m \in 0..(r.block.nonce - 1) : ~MeetsAt(b, m)
             /\ r.computed_hash = compute_hash(r.block, heap)
    /\ Len(chain) >= 2 =>
         LET mined == chain[Len(chain)]
         IN  /\ MeetsAt(mined, mined.nonce)
             /\ \A m \in 0..(mined.nonce - 1) : ~MeetsAt(mined, m)

\* mine() returned a block whose search went past nonce 1.
C17_Witness ==
    /\ last.op = "mine"
    /\ last.ret.tag = "block"
    /\ last.ret.val.nonce > 1

\* No list is shared: the mined blocks and the pool each have their own.
OwnLists ==
    /\ \A i, j \in 1..Len(chain) :
           i # j => chain[i].transactions # chain[j].transactions
    /\ \A i \in 1..Len(chain) : chain[i].transactions # pending_transactions

\* The step appends one record to the pool, by a successful issue, transfer
\* or redeem, and leaves the chain alone.
AcceptStep ==
    /\ Len(AllRecords') = Len(AllRecords) + 1
    /\ SubSeq(AllRecords', 1, Len(AllRecords)) = AllRecords
    /\ Pending' = Append(Pending, AllRecords'[Len(AllRecords')])
    /\ chain' = chain
    /\ \/ last'.op = "issue_ticket" /\ last'.ret.tag = "id"
       \/ /\ last'.op \in {"transfer_ticket", "redeem_ticket"}
          /\ last'.ret.tag = "bool"
          /\ last'.ret.val = TRUE

\* The step is a mine() that appended a block and emptied the pool.
MineStep ==
    /\ last'.op = "mine"
    /\ last'.ret.tag = "block"
    /\ Len(chain') = Len(chain) + 1
    /\ Pending' = <<>>
    /\ AllRecords' = AllRecords

\* C18: the records of blocks and pool only grow, by one record per
\* successful issue, transfer or redeem; the pool changes only by such an
\* append or by a successful mine() emptying it; only mine() changes the
\* chain; and no record sits in two places.
C18_RecordConservation ==
    [][/\ AllRecords' # AllRecords => AcceptStep
       /\ Pending' # Pending => AcceptStep \/ MineStep
       /\ chain' # chain => MineStep
       /\ OwnLists']_vars

\* Three records accepted, some mined and some pending.
C18_Witness ==
    /\ Len(AllRecords) = 3
    /\ Len(chain) >= 2
    /\ Pending # <<>>

\* The event of every ticket is the one of the issue_ticket call that
\* returned its id.
EventAsIssued ==
    \A id \in DOMAIN tickets :
        \E i \in 1..Len(trace) :
            /\ Len(trace[i]) = 4
            /\ trace[i][4] = id
            /\ trace[i][3] = tickets[id].event

\* C19: no step changes the event of a ticket, the event is the one passed
\* to issue_ticket, and no step changes the owner of a redeemed ticket.
C19_EventFixedOwnerFrozen ==
    [][/\ \A id \in DOMAIN tickets :
            /\ id \in DOMAIN tickets'
            /\ tickets'[id].event = tickets[id].event
            /\ tickets[id].status = "redeemed"
                  => tickets'[id].owner = tickets[id].owner
       /\ EventAsIssued']_vars

\* A transfer was refused while every ticket id exists: its ticket was
\* redeemed, and its owner stays.
C19_Witness ==
    /\ last.op = "transfer_ticket"
    /\ last.ret.val = FALSE
    /\ DOMAIN tickets = TicketIds
    /\ \E id \in TicketIds : tickets[id].status = "redeemed"

\* ------------------------------------------- properties of SpecConc

\* Every non-empty list is the list of a block or the pool.
NoneLost ==
    \A k \in DOMAIN heap :
        heap[k] # <<>> =>
            \/ k = pending_transactions
            \/ \E i \in 1..Len(chain) : chain[i].transactions = k

\* C14: once the calls of the threads have returned, every block's stored
\* hash is the hash of its content as it is, and every record is in one
\* place only, a block or the pool: no record is lost, and no list is both
\* in a block and the pool or in two blocks.
C14_MiningAtomic ==
    AllQuiet =>
        /\ OwnLists
        /\ NoneLost
        /\ \A i \in 1..Len(chain) :
               chain[i].hash = compute_hash(chain[i], heap)

\* Every record ever appended, each list once, in the order of the lists.
RECURSIVE Flat(_)
Flat(hp) == IF hp = <<>> THEN <<>> ELSE Head(hp) \o Flat(Tail(hp))

\* C15: no ticket has two redeem records, no ticket has a record after its
\* redeem record, and two redeem calls for the same ticket do not both
\* return True.
C15_RedeemOnce ==
    LET rs == Flat(heap)
    IN  /\ \A i, j \in DOMAIN rs :
               (/\ i < j
                /\ rs[i].ticket_id = rs[j].ticket_id
                /\ rs[i].tx_type = "redeem") => FALSE
        /\ \A t, u \in Threads :
               (/\ t # u
                /\ threads[t].pc = "done"
                /\ threads[u].pc = "done"
                /\ threads[t].op = "redeem_ticket"
                /\ threads[u].op = "redeem_ticket"
                /\ threads[t].ticket_id = threads[u].ticket_id)
                   => ~(threads[t].ret = True /\ threads[u].ret = True)

\* A block's stored hash is not the hash of its content, or its
\* previous_hash is not the hash of the block before it.
Corrupt ==
    \E i \in 1..Len(chain) :
        \/ chain[i].hash # compute_hash(chain[i], heap)
        \/ i > 1 /\ chain[i].previous_hash # compute_hash(chain[i - 1], heap)

\* C20: no step appends a block to a chain that is corrupt.
C20_CorruptionHaltsMining ==
    [][Len(chain') > Len(chain) => ~Corrupt]_vars

====
